---- MODULE Spec2Model ----
(***************************************************************************)
(* Page layout of the newsletter generator (streamlit_app.py):             *)
(* calculate_text_blocks computes the text rectangles around the images    *)
(* of a page, and create_new_pdf flows the paragraphs of the generated     *)
(* text into them, page by page.                                           *)
(*                                                                         *)
(* Lengths are held in tenths of a point, so that the line height          *)
(* 11 * 1.2 = 13.2 is the integer 132.  Image pixel sizes are plain        *)
(* integers.                                                               *)
(***************************************************************************)
EXTENDS Integers, Sequences, FiniteSets, TLC

VARIABLES
    doc,            \* the original PDF: one [width, height] per page
    new_images,     \* the uploaded images: one [width, height] in pixels each
    paragraphs,     \* new_text.split('\n\n'): the line count of each paragraph
    page_num,       \* the outer loop's index (0-based, as in the code)
    new_doc,        \* the pages made so far: [rect, images, text]
    page_rect,      \* the page rectangle handed to calculate_text_blocks
    image_rects,    \* the image rectangles handed to calculate_text_blocks
    text_blocks,    \* what calculate_text_blocks returned
    current_block,  \* the flow cursor: index into text_blocks (0-based)
    current_y,      \* the flow cursor: y of the next paragraph
    para,           \* position of the inner loop in paragraphs (1-based)
    pc,             \* where create_new_pdf (or the caller of the pure function) is
    result,         \* what create_new_pdf returned: "none" (still running), "buffer", "None"
    st_errors       \* number of st.error reports

vars == <<doc, new_images, paragraphs, page_num, new_doc, page_rect, image_rects,
          text_blocks, current_block, current_y, para, pc, result, st_errors>>

Pt(n) == 10 * n

----------------------------------------------------------------------------
(* Bounds and input sets *)

MaxPages == 2
MaxParagraphs == 3
MaxImageRects == 1

PageSizes ==
    { [width |-> Pt(800), height |-> Pt(1000)],
      [width |-> Pt(600), height |-> Pt(400)],
      [width |-> Pt(400), height |-> Pt(1000)],
      [width |-> Pt(400), height |-> Pt(150)] }

\* Pixel sizes whose aspect ratio height / width is an exact binary fraction.
ImageSizes ==
    { [width |-> 600, height |-> 300],
      [width |-> 200, height |-> 800] }

LineCounts == {1, 12, 40}

\* Inputs of the calls of calculate_text_blocks that are checked on their own.
BlockPages ==
    { [width |-> Pt(800), height |-> Pt(1000)],
      [width |-> Pt(300), height |-> Pt(300)],
      [width |-> Pt(400), height |-> Pt(160)],
      [width |-> Pt(400), height |-> Pt(150)],
      [width |-> Pt(400), height |-> Pt(151)],
      [width |-> Pt(80), height |-> Pt(1000)] }

GridX == {Pt(60), Pt(100), Pt(110), Pt(200), Pt(500), Pt(700), Pt(750)}
GridY == {Pt(50), Pt(100), Pt(110), Pt(200), Pt(850), Pt(900)}

SeqsUpTo(S, n) == UNION { [1..k -> S] : k \in 0..n }

----------------------------------------------------------------------------
(* fitz.Rect *)

Rect(a, b, c, d) == [x0 |-> a, y0 |-> b, x1 |-> c, y1 |-> d]

Width(r) == r.x1 - r.x0

Height(r) == r.y1 - r.y0

GridRects ==
    { Rect(a, b, c, d) : <<a, b, c, d>> \in
        { q \in GridX \X GridY \X GridX \X GridY : q[1] < q[3] /\ q[2] < q[4] } }

----------------------------------------------------------------------------
(* calculate_text_blocks *)

margin == Pt(50)

AvailableRectNoBottomMargin(rect) ==
    Rect(margin, margin, Width(rect) - margin, Height(rect))

AvailableRect(rect) ==
    Rect(margin, margin, Width(rect) - margin, Height(rect) - margin)

AboveBlockNotStrict(available_rect, img_rect) ==
    IF img_rect.y0 >= available_rect.y0 + margin
    THEN << Rect(available_rect.x0, available_rect.y0,
                 available_rect.x1, img_rect.y0 - margin) >>
    ELSE << >>

AboveBlock(available_rect, img_rect) ==
    IF img_rect.y0 > available_rect.y0 + margin
    THEN << Rect(available_rect.x0, available_rect.y0,
                 available_rect.x1, img_rect.y0 - margin) >>
    ELSE << >>

LeftBlockNoMargin(available_rect, img_rect) ==
    IF img_rect.x0 > available_rect.x0
    THEN << Rect(available_rect.x0, img_rect.y0,
                 img_rect.x0 - margin, img_rect.y1) >>
    ELSE << >>

LeftBlock(available_rect, img_rect) ==
    IF img_rect.x0 > available_rect.x0 + margin
    THEN << Rect(available_rect.x0, img_rect.y0,
                 img_rect.x0 - margin, img_rect.y1) >>
    ELSE << >>

RightBlock(available_rect, img_rect) ==
    IF img_rect.x1 < available_rect.x1 - margin
    THEN << Rect(img_rect.x1 + margin, img_rect.y0,
                 available_rect.x1, img_rect.y1) >>
    ELSE << >>

BelowImage(available_rect, img_rect) ==
    [available_rect EXCEPT !.y0 = img_rect.y1 + margin]

RemainingBlock(available_rect) ==
    IF available_rect.y0 < available_rect.y1 - margin
    THEN << available_rect >>
    ELSE << >>

RECURSIVE ImageLoop(_, _)
ImageLoop(available_rect, rects) ==
    IF rects = << >>
    THEN RemainingBlock(available_rect)
    ELSE LET img_rect == Head(rects)
         IN  AboveBlock(available_rect, img_rect)
             \o LeftBlock(available_rect, img_rect)
             \o RightBlock(available_rect, img_rect)
             \o ImageLoop(BelowImage(available_rect, img_rect), Tail(rects))

calculate_text_blocks(rect, rects) == ImageLoop(AvailableRect(rect), rects)

----------------------------------------------------------------------------
(* create_new_pdf *)

img_width == Pt(300)

font_size == Pt(11)

line_height == (font_size * 12) \div 10

\* int(img_width * (img.height / img.width))
img_height(img) == Pt((300 * img.height) \div img.width)

PlacedImageRect(rect, img) ==
    Rect(Width(rect) - img_width - Pt(50), Pt(50),
         Width(rect) - Pt(50), Pt(50) + img_height(img))

PageImageRects(rect, n) ==
    IF new_images # << >> /\ n < Len(new_images)
    THEN << PlacedImageRect(rect, new_images[n + 1]) >>
    ELSE << >>

text_height(lines) == lines * line_height

FlowIterationNoReset(blocks, cb, cy, lines) ==
    IF cb >= Len(blocks)
    THEN [brk |-> TRUE, block |-> cb, y |-> cy]
    ELSE IF cy + text_height(lines) > blocks[cb + 1].y1
         THEN IF cb + 1 >= Len(blocks)
              THEN [brk |-> TRUE, block |-> cb + 1, y |-> cy]
              ELSE [brk |-> FALSE, block |-> cb + 1, y |-> cy]
         ELSE [brk |-> FALSE, block |-> cb, y |-> cy]

\* One pass of the body of "for paragraph in paragraphs" up to insert_text:
\* whether it breaks, and the block and y the paragraph is drawn at.
FlowIteration(blocks, cb, cy, lines) ==
    IF cb >= Len(blocks)
    THEN [brk |-> TRUE, block |-> cb, y |-> cy]
    ELSE IF cy + text_height(lines) > blocks[cb + 1].y1
         THEN IF cb + 1 >= Len(blocks)
              THEN [brk |-> TRUE, block |-> cb + 1, y |-> cy]
              ELSE [brk |-> FALSE, block |-> cb + 1, y |-> blocks[cb + 2].y0]
         ELSE [brk |-> FALSE, block |-> cb, y |-> cy]

AdvanceCursorNoSpacing(y, lines) == y + text_height(lines)

AdvanceCursor(y, lines) == y + text_height(lines) + font_size

AppendText(pages, placement) ==
    [pages EXCEPT ![Len(pages)].text = Append(@, placement)]

Init ==
    /\ doc \in SeqsUpTo(PageSizes, MaxPages) \ {<< >>}
    /\ new_images \in SeqsUpTo(ImageSizes, MaxPages)
    /\ Len(new_images) <= Len(doc)    \* an image beyond the last page is never read
    /\ paragraphs \in SeqsUpTo(LineCounts, MaxParagraphs) \ {<< >>}
    /\ page_num = 0
    /\ new_doc = << >>
    /\ page_rect = Rect(0, 0, 0, 0)
    /\ image_rects = << >>
    /\ text_blocks = << >>
    /\ current_block = 0
    /\ current_y = 0
    /\ para = 1
    /\ pc = "page"
    /\ result = "none"
    /\ st_errors = 0

\* Lines 131-171 with an empty text_blocks: text_blocks[0] raises IndexError,
\* which the except clause reports before returning None.
RaiseIndexError(rect, rects) ==
    /\ new_doc' = Append(new_doc, [rect |-> rect, images |-> rects, text |-> << >>])
    /\ page_rect' = rect
    /\ image_rects' = rects
    /\ text_blocks' = << >>
    /\ pc' = "error"
    /\ result' = "None"
    /\ st_errors' = st_errors + 1
    /\ UNCHANGED <<doc, new_images, paragraphs, page_num, current_block, current_y, para>>

EnterFlow(rect, rects, blocks, y, first) ==
    /\ new_doc' = Append(new_doc, [rect |-> rect, images |-> rects, text |-> << >>])
    /\ page_rect' = rect
    /\ image_rects' = rects
    /\ text_blocks' = blocks
    /\ current_block' = 0
    /\ current_y' = y
    /\ para' = first
    /\ pc' = "flow"
    /\ UNCHANGED <<doc, new_images, paragraphs, page_num, result, st_errors>>

PageStartNoIndexError ==
    /\ pc = "page"
    /\ page_num < Len(doc)
    /\ LET rect == Rect(0, 0, doc[page_num + 1].width, doc[page_num + 1].height)
           rects == PageImageRects(rect, page_num)
           blocks == calculate_text_blocks(rect, rects)
       IN  EnterFlow(rect, rects, blocks, IF blocks = << >> THEN 0 ELSE blocks[1].y0, 1)

PageStartKeepParagraph ==
    /\ pc = "page"
    /\ page_num < Len(doc)
    /\ LET rect == Rect(0, 0, doc[page_num + 1].width, doc[page_num + 1].height)
           rects == PageImageRects(rect, page_num)
           blocks == calculate_text_blocks(rect, rects)
       IN  IF blocks = << >>
           THEN RaiseIndexError(rect, rects)
           ELSE EnterFlow(rect, rects, blocks, blocks[1].y0, para)

\* One pass of "for page_num in range(len(doc))" up to the inner loop.
PageStart ==
    /\ pc = "page"
    /\ page_num < Len(doc)
    /\ LET rect == Rect(0, 0, doc[page_num + 1].width, doc[page_num + 1].height)
           rects == PageImageRects(rect, page_num)
           blocks == calculate_text_blocks(rect, rects)
       IN  IF blocks = << >>
           THEN RaiseIndexError(rect, rects)
           ELSE EnterFlow(rect, rects, blocks, blocks[1].y0, 1)

\* The inner loop is left (break, or the last paragraph is done): next page.
LeaveFlow(done) ==
    IF done
    THEN pc' = "page" /\ page_num' = page_num + 1
    ELSE pc' = "flow" /\ page_num' = page_num

FlowStepContinue ==
    /\ pc = "flow"
    /\ para <= Len(paragraphs)
    /\ LET it == FlowIteration(text_blocks, current_block, current_y, paragraphs[para])
       IN  IF it.brk
           THEN /\ UNCHANGED <<current_block, current_y, new_doc>>
                /\ para' = para + 1
                /\ LeaveFlow(para = Len(paragraphs))
           ELSE /\ current_block' = it.block
                /\ new_doc' = AppendText(new_doc,
                       [paragraph |-> para, lines |-> paragraphs[para],
                        block |-> it.block, text_block |-> text_blocks[it.block + 1],
                        x |-> text_blocks[it.block + 1].x0, y |-> it.y])
                /\ current_y' = AdvanceCursor(it.y, paragraphs[para])
                /\ para' = para + 1
                /\ LeaveFlow(para = Len(paragraphs))
    /\ UNCHANGED <<doc, new_images, paragraphs, page_rect, image_rects, text_blocks,
                   result, st_errors>>

\* One pass of "for paragraph in paragraphs" (lines 175-198).
FlowStep ==
    /\ pc = "flow"
    /\ para <= Len(paragraphs)
    /\ LET it == FlowIteration(text_blocks, current_block, current_y, paragraphs[para])
       IN  IF it.brk
           THEN /\ current_block' = it.block
                /\ UNCHANGED <<current_y, new_doc, para>>
                /\ LeaveFlow(TRUE)
           ELSE /\ current_block' = it.block
                /\ new_doc' = AppendText(new_doc,
                       [paragraph |-> para, lines |-> paragraphs[para],
                        block |-> it.block, text_block |-> text_blocks[it.block + 1],
                        x |-> text_blocks[it.block + 1].x0, y |-> it.y])
                /\ current_y' = AdvanceCursor(it.y, paragraphs[para])
                /\ para' = para + 1
                /\ LeaveFlow(para = Len(paragraphs))
    /\ UNCHANGED <<doc, new_images, paragraphs, page_rect, image_rects, text_blocks,
                   result, st_errors>>

\* Lines 200-205: every page is done, the document is saved and returned.
Save ==
    /\ pc = "page"
    /\ page_num = Len(doc)
    /\ pc' = "done"
    /\ result' = "buffer"
    /\ UNCHANGED <<doc, new_images, paragraphs, page_num, new_doc, page_rect, image_rects,
                   text_blocks, current_block, current_y, para, st_errors>>

Next == PageStart \/ FlowStep \/ Save

Spec == Init /\ [][Next]_vars

----------------------------------------------------------------------------
(* calculate_text_blocks on its own: any page of BlockPages, any list of   *)
(* at most MaxImageRects rectangles of the grid.                           *)

InitBlocks ==
    /\ page_rect \in { Rect(0, 0, p.width, p.height) : p \in BlockPages }
    /\ image_rects \in SeqsUpTo(GridRects, MaxImageRects)
    /\ text_blocks = << >>
    /\ pc = "call"
    /\ doc = << >>
    /\ new_images = << >>
    /\ paragraphs = << >>
    /\ page_num = 0
    /\ new_doc = << >>
    /\ current_block = 0
    /\ current_y = 0
    /\ para = 1
    /\ result = "none"
    /\ st_errors = 0

CallBlocks ==
    /\ pc = "call"
    /\ text_blocks' = calculate_text_blocks(page_rect, image_rects)
    /\ pc' = "returned"
    /\ UNCHANGED <<doc, new_images, paragraphs, page_num, new_doc, page_rect, image_rects,
                   current_block, current_y, para, result, st_errors>>

NextBlocks == CallBlocks

SpecBlocks == InitBlocks /\ [][NextBlocks]_vars

----------------------------------------------------------------------------
(* Properties of calculate_text_blocks, under SpecBlocks *)

\* The page inset by 50 on all four sides.
Inset(rect) ==
    Rect(Pt(50), Pt(50), (rect.x1 - rect.x0) - Pt(50), (rect.y1 - rect.y0) - Pt(50))

Returned == pc = "returned"

\* C1 as stated: for any page rectangle and an empty image list the result is
\* exactly one region, the page inset by 50 on all four sides.
C1_OneRegionAnyPage ==
    (Returned /\ image_rects = << >>) => text_blocks = << Inset(page_rect) >>

\* C1 amended: for an empty image list the result is exactly the inset page
\* when the page is more than 150 high, and no region at all otherwise.
C1_OneRegionTallPage ==
    (Returned /\ image_rects = << >>) =>
        IF page_rect.y1 - page_rect.y0 > Pt(150)
        THEN text_blocks = << Inset(page_rect) >>
        ELSE text_blocks = << >>

C1_Witness ==
    /\ Returned
    /\ image_rects = << >>
    /\ page_rect.y1 - page_rect.y0 = Pt(160)
    /\ Len(text_blocks) = 1

StrictlyInside(r, outer) ==
    /\ outer.x0 < r.x0 /\ r.x0 < r.x1 /\ r.x1 < outer.x1
    /\ outer.y0 < r.y0 /\ r.y0 < r.y1 /\ r.y1 < outer.y1

\* The kind of a region next to image img: 1 above, 2 left, 3 right, 4 trailing.
RegionKind(r, img) ==
    IF r.y0 = Pt(50) /\ r.y1 = img.y0 - Pt(50) THEN 1
    ELSE IF r.x0 = Pt(50) /\ r.x1 = img.x0 - Pt(50) /\ r.y0 = img.y0 /\ r.y1 = img.y1 THEN 2
    ELSE IF r.x0 = img.x1 + Pt(50) /\ r.y0 = img.y0 /\ r.y1 = img.y1 THEN 3
    ELSE IF r.y0 = img.y1 + Pt(50) THEN 4
    ELSE 0

WellFormedAround(blocks, img) ==
    /\ \A i \in 1..Len(blocks) :
          /\ blocks[i].x1 - blocks[i].x0 >= 0
          /\ blocks[i].y1 - blocks[i].y0 >= 0
          /\ RegionKind(blocks[i], img) \in 1..4
    /\ \A i, j \in 1..Len(blocks) :
          i < j => RegionKind(blocks[i], img) < RegionKind(blocks[j], img)

SingleInside ==
    /\ Returned
    /\ Len(image_rects) = 1
    /\ StrictlyInside(image_rects[1], Inset(page_rect))

\* C2 as stated: one image strictly inside the inset page gives at least 1 and
\* at most 4 regions (above, left, right, trailing, in that order), each of
\* width >= 0 and height >= 0.
C2_OneToFourRegions ==
    SingleInside =>
        /\ Len(text_blocks) >= 1
        /\ Len(text_blocks) <= 4
        /\ WellFormedAround(text_blocks, image_rects[1])

\* C2 amended: one image strictly inside the inset page gives at most 4 regions
\* (above, left, right, trailing, in that order), each of width >= 0 and
\* height >= 0; it gives none exactly when the image is within 50 of the top,
\* left and right of the inset page and within 100 of its bottom.
C2_UpToFourRegions ==
    SingleInside =>
        LET img == image_rects[1]
            w == page_rect.x1 - page_rect.x0
            h == page_rect.y1 - page_rect.y0
        IN  /\ Len(text_blocks) <= 4
            /\ WellFormedAround(text_blocks, img)
            /\ (Len(text_blocks) = 0) <=>
                   /\ img.y0 <= Pt(100)
                   /\ img.x0 <= Pt(100)
                   /\ img.x1 >= w - Pt(100)
                   /\ img.y1 >= h - Pt(150)

C2_Witness ==
    /\ SingleInside
    /\ Len(text_blocks) = 4

\* C8: with one image, an above region is emitted exactly when image.top >
\* available.top + 50 and a right region exactly when image.right <
\* available.right - 50 (nothing at equality); page 800x1000 with image
\* (500,50)-(750,200) gives exactly the left region (50,50)-(450,200) and then
\* the trailing region (50,250)-(750,950).
C8_StrictBoundaries ==
    (Returned /\ Len(image_rects) = 1) =>
        LET img == image_rects[1]
            avail == Inset(page_rect)
            above == Rect(avail.x0, avail.y0, avail.x1, img.y0 - Pt(50))
            right == Rect(img.x1 + Pt(50), img.y0, avail.x1, img.y1)
        IN  /\ (\E i \in 1..Len(text_blocks) : text_blocks[i] = above)
                   <=> img.y0 > avail.y0 + Pt(50)
            /\ (\E i \in 1..Len(text_blocks) : text_blocks[i] = right)
                   <=> img.x1 < avail.x1 - Pt(50)
            /\ (page_rect = Rect(0, 0, Pt(800), Pt(1000))
                    /\ img = Rect(Pt(500), Pt(50), Pt(750), Pt(200)))
                   => text_blocks = << Rect(Pt(50), Pt(50), Pt(450), Pt(200)),
                                       Rect(Pt(50), Pt(250), Pt(750), Pt(950)) >>

C8_Witness ==
    /\ Returned
    /\ page_rect = Rect(0, 0, Pt(800), Pt(1000))
    /\ image_rects = << Rect(Pt(500), Pt(50), Pt(750), Pt(200)) >>
    /\ Len(text_blocks) = 2

----------------------------------------------------------------------------
(* Properties of the flow loop of create_new_pdf, under Spec *)

Pages == 1..Len(new_doc)

\* Page p's inner loop has ended.
PageDone(p) == p < Len(new_doc) \/ pc \in {"page", "done"}

Placed(p) == new_doc[p].text

\* C3: every placement has its y inside [top, bottom] of the region whose left
\* edge it is drawn at, after every step of the loop.
C3_PositionInsideRegion ==
    \A p \in Pages : \A i \in 1..Len(Placed(p)) :
        LET pl == Placed(p)[i]
        IN  /\ pl.x = pl.text_block.x0
            /\ pl.text_block.y0 <= pl.y
            /\ pl.y <= pl.text_block.y1

\* A paragraph placed right after the cursor advanced to the next region, and
\* a second paragraph placed below it in that region.
C3_Witness ==
    \E p \in Pages : \E i \in 2..Len(Placed(p)) :
        /\ Placed(p)[i].block = 1
        /\ Placed(p)[i - 1].block = 1
        /\ (i > 2 => Placed(p)[i - 2].block = 0)

\* C4: the bottom of every placed paragraph (y + lines * 13.2) is at most the
\* bottom of its region, for paragraphs of any line count.
C4_BottomInsideRegion ==
    \A p \in Pages : \A i \in 1..Len(Placed(p)) :
        LET pl == Placed(p)[i]
        IN  pl.y + (pl.lines * Pt(11) * 12) \div 10 <= pl.text_block.y1

RECURSIVE CumulativeHeight(_)
\* Text heights of the paragraphs plus the spacing between them.
CumulativeHeight(ps) ==
    IF ps = << >> THEN 0
    ELSE (Head(ps) * Pt(11) * 12) \div 10
         + (IF Len(ps) > 1 THEN Pt(11) ELSE 0)
         + CumulativeHeight(Tail(ps))

PageBlocks(p) == calculate_text_blocks(new_doc[p].rect, new_doc[p].images)

\* C5: the placements of a page are a prefix of the paragraphs in input order;
\* on a one-region page whose capacity the paragraphs exceed the prefix is
\* proper, and the loop ends with no error.
C5_PrefixInOrder ==
    \A p \in Pages :
        /\ Len(Placed(p)) <= Len(paragraphs)
        /\ \A i \in 1..Len(Placed(p)) :
              /\ Placed(p)[i].paragraph = i
              /\ Placed(p)[i].lines = paragraphs[i]
        /\ (/\ Len(PageBlocks(p)) = 1
            /\ CumulativeHeight(paragraphs) > PageBlocks(p)[1].y1 - PageBlocks(p)[1].y0)
           => /\ PageDone(p) => Len(Placed(p)) < Len(paragraphs)
              /\ p = Len(new_doc) =>
                     /\ pc # "error" /\ st_errors = 0 /\ result # "None"
                     /\ pc = "flow" => para <= Len(paragraphs)

\* A one-region page that dropped a paragraph, and a later one-line paragraph
\* that would have fitted below what was placed.
C5_Witness ==
    \E p \in Pages :
        LET k == Len(Placed(p))
            n == Len(paragraphs)
        IN  /\ PageDone(p)
            /\ Len(PageBlocks(p)) = 1
            /\ k >= 1
            /\ k + 1 < n
            /\ paragraphs[n] = 1
            /\ Placed(p)[k].y + Placed(p)[k].lines * 132 + Pt(11) + 132
                   <= PageBlocks(p)[1].y1
            /\ pc = "done"
            /\ result = "buffer"

\* C6: when calculate_text_blocks returns no region for a page, create_new_pdf
\* reports the error, returns None, and has drawn no paragraph on that page.
C6_EmptyLayoutAborts ==
    /\ (new_doc # << >> /\ text_blocks = << >>) =>
           /\ pc = "error"
           /\ result = "None"
           /\ st_errors = 1
           /\ Placed(Len(new_doc)) = << >>
    /\ \A p \in Pages :
           PageBlocks(p) = << >> =>
               /\ p = Len(new_doc)
               /\ pc = "error"
               /\ Placed(p) = << >>
    /\ pc = "error" => result = "None"
    /\ result = "buffer" => pc = "done"

\* The second page has no region, after a first page that placed text.
C6_Witness ==
    /\ pc = "error"
    /\ Len(new_doc) = 2
    /\ text_blocks = << >>
    /\ Placed(1) # << >>
    /\ result = "None"

\* C7: the first paragraph of each region is placed at the region's top, every
\* further one at the previous paragraph's y plus its text height
\* (lines * 11 * 1.2) plus 11; page 800x1000, no image, three one-line
\* paragraphs are placed at 50, 74.2 and 98.4.
C7_CursorPositions ==
    \A p \in Pages :
        /\ \A i \in 1..Len(Placed(p)) :
              LET pl == Placed(p)[i]
              IN  IF i = 1 \/ Placed(p)[i - 1].block # pl.block
                  THEN pl.y = pl.text_block.y0
                  ELSE pl.y = Placed(p)[i - 1].y
                                + (Placed(p)[i - 1].lines * Pt(11) * 12) \div 10
                                + Pt(11)
        /\ (/\ PageDone(p)
            /\ new_doc[p].rect = Rect(0, 0, Pt(800), Pt(1000))
            /\ new_doc[p].images = << >>
            /\ paragraphs = <<1, 1, 1>>)
           => /\ Len(Placed(p)) = 3
              /\ \A i \in 1..3 : Placed(p)[i].block = 0 /\ Placed(p)[i].x = Pt(50)
              /\ Placed(p)[1].y = Pt(50)
              /\ Placed(p)[2].y = 742
              /\ Placed(p)[3].y = 984

C7_Witness ==
    \E p \in Pages :
        /\ PageDone(p)
        /\ new_doc[p].rect = Rect(0, 0, Pt(800), Pt(1000))
        /\ new_doc[p].images = << >>
        /\ paragraphs = <<1, 1, 1>>
        /\ Len(Placed(p)) = 3

SamePagesSameText ==
    \A p, q \in Pages :
        (/\ PageDone(p) /\ PageDone(q)
         /\ new_doc[p].rect = new_doc[q].rect
         /\ new_doc[p].images = new_doc[q].images)
        => Placed(p) = Placed(q)

FromFirstParagraph ==
    \A p \in Pages : \A i \in 1..Len(Placed(p)) : Placed(p)[i].paragraph = i

StartsAfresh ==
    (pc = "page" /\ pc' = "flow") =>
        /\ para' = 1
        /\ current_block' = 0
        /\ current_y' = text_blocks'[1].y0
        /\ new_doc'[Len(new_doc')].text = << >>

\* C9: no flow state carries from one page to the next: every page starts at
\* the first paragraph with regionIndex 0 and cursorY at the first region's
\* top; pages of equal size and equal image rectangles get identical
\* placements, and every page places a prefix that starts at paragraph 1.
C9_NoCarryOver ==
    /\ [](SamePagesSameText /\ FromFirstParagraph)
    /\ [][StartsAfresh]_vars

\* Two equal pages, the first of which dropped paragraphs that the second
\* dropped again.
C9_Witness ==
    /\ pc = "done"
    /\ Len(new_doc) = 2
    /\ new_doc[1].rect = new_doc[2].rect
    /\ new_doc[1].images = new_doc[2].images
    /\ Placed(1) # << >>
    /\ Len(Placed(1)) < Len(paragraphs)
    /\ Placed(2) = Placed(1)

Intersects(r, s) ==
    /\ r.x0 < s.x1 /\ s.x0 < r.x1
    /\ r.y0 < s.y1 /\ s.y0 < r.y1

\* C10: every text region handed to the flow loop lies inside the page's
\* inset rectangle [50, width-50] x [50, height-50] and does not intersect the
\* placed image, so every paragraph position lies inside the inset page.
C10_RegionsInsideMargins ==
    /\ pc = "flow" =>
           \A i \in 1..Len(text_blocks) :
               LET b == text_blocks[i]
                   inset == Inset(page_rect)
               IN  /\ inset.x0 <= b.x0 /\ b.x1 <= inset.x1
                   /\ inset.y0 <= b.y0 /\ b.y1 <= inset.y1
                   /\ \A k \in 1..Len(image_rects) : ~Intersects(b, image_rects[k])
    /\ \A p \in Pages : \A i \in 1..Len(Placed(p)) :
           LET pl == Placed(p)[i]
               inset == Inset(new_doc[p].rect)
           IN  /\ inset.x0 <= pl.x /\ pl.x <= inset.x1
               /\ inset.y0 <= pl.y /\ pl.y <= inset.y1

====
